---------------------------- MODULE Spec2Model ----------------------------
(***************************************************************************)
(* The tool-invocation gateway of server-http-python-lambda/server/app.py: *)
(* lambda_handler, the four registered tools and the dice-notation parser. *)
(*                                                                         *)
(* Python values are tagged records.  A str that the program only passes   *)
(* on or compares is an atom (field s); a str that dice_roll parses is a   *)
(* sequence of one-character strings (field chars).                        *)
(***************************************************************************)
EXTENDS Integers, Sequences, FiniteSets, TLC

VARIABLES
    tools,                 \* mcp_server.tools: the catalog, in insertion order
    tool_implementations,  \* mcp_server.tool_implementations: name -> callable
    environ,               \* os.environ, as far as the tools read it
    characters,            \* the character table behind boto3's dynamodb resource
    request,               \* the event of the last call of lambda_handler
    response,              \* what that call did: an envelope, or an exception
    trace                  \* what that call touched on its way

vars == <<tools, tool_implementations, environ, characters, request, response, trace>>

----------------------------------------------------------------------------
(* Bounds of the model. *)

\* dice_roll's draws are enumerated in full up to this many dice ...
MaxDice == 2
\* ... of up to this many sides.
MaxSides == 3

(* Constants of the program. *)
MinNumDice == 1
MaxNumDice == 100
MinNumSides == 2
MaxNumSides == 1000

----------------------------------------------------------------------------
(* JSON values, as json.loads builds them. *)

JNull == [t |-> "null"]
JNum(n) == [t |-> "num", n |-> n]
JStr(s) == [t |-> "str", s |-> s]
JText(chars) == [t |-> "str", chars |-> chars]
JList(items) == [t |-> "list", l |-> items]
JObj(o) == [t |-> "obj", o |-> o]

\* A dict with no key.
EmptyDict == <<>>

IsText(v) == v.t = "str" /\ "chars" \in DOMAIN v

----------------------------------------------------------------------------
(* Python helpers. *)

Return(v) == [kind |-> "return", value |-> v]
Raise(exc, msg) == [kind |-> "raise", exc |-> exc, msg |-> msg]

DigitChars == <<"0", "1", "2", "3", "4", "5", "6", "7", "8", "9">>

IsDigit(c) == \E i \in 1..10 : DigitChars[i] = c

DigitValue(c) == (CHOOSE i \in 1..10 : DigitChars[i] = c) - 1

\* Python's sum() of a list.
RECURSIVE sum(_)
sum(rolls) == IF rolls = <<>> THEN 0 ELSE rolls[1] + sum(Tail(rolls))

\* Python's int() of a string of decimal digits.
RECURSIVE IntOfDigits(_)
IntOfDigits(chars) ==
    IF chars = <<>> THEN 0
    ELSE 10 * IntOfDigits(SubSeq(chars, 1, Len(chars) - 1)) + DigitValue(chars[Len(chars)])

\* Python's int() of the strings dice_roll gives it: digits, with or without a sign.
int(chars) ==
    IF chars[1] = "+" THEN IntOfDigits(Tail(chars))
    ELSE IF chars[1] = "-" THEN 0 - IntOfDigits(Tail(chars))
    ELSE IntOfDigits(chars)

\* How long the longest run of digits is that starts at position from: what a
\* greedy \d+ takes there.
RECURSIVE DigitRun(_, _)
DigitRun(chars, from) ==
    IF from <= Len(chars) /\ IsDigit(chars[from])
    THEN 1 + DigitRun(chars, from + 1)
    ELSE 0

\* re.match(r"(\d+)d(\d+)([+-]\d+)?", chars): the match is anchored at the start of
\* the string and not at its end.  A shorter first or second group never helps the
\* match: the character after it would be a digit where a "d" or nothing is required.
ReMatch(chars) ==
    LET n1 == DigitRun(chars, 1)
        n2 == DigitRun(chars, n1 + 2)
        p3 == n1 + n2 + 2
        n3 == IF p3 <= Len(chars) /\ chars[p3] \in {"+", "-"}
              THEN DigitRun(chars, p3 + 1) ELSE 0
    IN  IF n1 = 0 \/ n1 + 1 > Len(chars) \/ chars[n1 + 1] # "d" \/ n2 = 0
        THEN [matched |-> FALSE]
        ELSE [matched |-> TRUE,
              group1 |-> SubSeq(chars, 1, n1),
              group2 |-> SubSeq(chars, n1 + 2, n1 + 1 + n2),
              group3 |-> IF n3 = 0 THEN <<>> ELSE SubSeq(chars, p3, p3 + n3)]

----------------------------------------------------------------------------
(* dice_roll *)

\* What [random.randint(1, sides) for _ in range(num_dice)] can be.  Beyond MaxDice
\* dice or MaxSides sides the model keeps the lists of num_dice equal draws.
RollLists(num_dice, sides) ==
    IF num_dice <= MaxDice /\ sides <= MaxSides
    THEN [1..num_dice -> 1..sides]
    ELSE {[i \in 1..num_dice |-> r] : r \in 1..sides}

NumDiceOutOfRange(num_dice) == num_dice < MinNumDice \/ num_dice > MaxNumDice

NumSidesOutOfRange(sides) == sides < MinNumSides \/ sides > MaxNumSides

\* RollText with the modifier left out of the total.
RollTextSumOnly(dice_notation, rolls, modifier) ==
    [text |-> "Rolled",
     notation |-> dice_notation,
     rolls |-> rolls,
     modifier_term |-> IF modifier # 0
                       THEN <<IF modifier > 0 THEN "+" ELSE "", modifier>>
                       ELSE <<>>,
     total |-> sum(rolls)]

\* The string dice_roll returns for a roll: "Rolled <notation>: <rolls> ", then
\* "<sign><modifier> " unless the modifier is 0, then "= <total>".
RollText(dice_notation, rolls, modifier) ==
    [text |-> "Rolled",
     notation |-> dice_notation,
     rolls |-> rolls,
     modifier_term |-> IF modifier # 0
                       THEN <<IF modifier > 0 THEN "+" ELSE "", modifier>>
                       ELSE <<>>,
     total |-> sum(rolls) + modifier]

\* The outcomes of dice_roll(dice_notation), one per result of the draws.
dice_roll(dice_notation) ==
    IF ~IsText(dice_notation)
    THEN {Raise("TypeError", "expected string or bytes-like object")}
    ELSE
    LET match == ReMatch(dice_notation.chars) IN
    IF ~match.matched
    THEN {Return([text |-> "[ERROR] Invalid dice notation", notation |-> dice_notation.chars])}
    ELSE
    LET num_dice == int(match.group1)
        sides == int(match.group2)
        modifier == int(IF match.group3 # <<>> THEN match.group3 ELSE <<"+", "0">>)
    IN  IF NumDiceOutOfRange(num_dice)
        THEN {Return([text |-> "[ERROR] Number of dice must be between 1 and 100."])}
        ELSE IF NumSidesOutOfRange(sides)
        THEN {Return([text |-> "[ERROR] Number of sides must be between 2 and 1000."])}
        ELSE {Return(RollText(dice_notation.chars, rolls, modifier)) :
                  rolls \in RollLists(num_dice, sides)}

----------------------------------------------------------------------------
(* The notations the dice engine is given. *)

\* The decimal digits of a natural number.
RECURSIVE Decimal(_)
Decimal(n) ==
    IF n < 10 THEN <<DigitChars[n + 1]>>
    ELSE Decimal(n \div 10) \o <<DigitChars[(n % 10) + 1]>>

NoClause == <<>>

\* "<n>d<s>" followed by clause: nothing, or a sign and the digits of a modifier.
Notation(n, s, clause) == Decimal(n) \o <<"d">> \o Decimal(s) \o clause

DiceCounts == (0..MaxDice) \cup {MaxNumDice, MaxNumDice + 1}

DiceSides == (1..MaxSides) \cup {MaxNumSides, MaxNumSides + 1}

\* Modifier clauses as written, each with the modifier it stands for.
ModifierClauses ==
    { [text |-> NoClause, modifier |-> 0],
      [text |-> <<"+", "3">>, modifier |-> 3],
      [text |-> <<"-", "2">>, modifier |-> -2],
      [text |-> <<"+", "0">>, modifier |-> 0],
      [text |-> <<"-", "0">>, modifier |-> 0],
      [text |-> <<"+", "1", "0">>, modifier |-> 10] }

Clauses == {c.text : c \in ModifierClauses}

GrammarNotations == {Notation(n, s, c) : n \in DiceCounts, s \in DiceSides, c \in Clauses}

\* Strings that are not of the grammar, some of them with a prefix that is.
MalformedNotations ==
    { <<>>, <<"d">>, <<"d", "6">>, <<"2", "d">>, <<"a", "b", "c">>,
      <<"2", "D", "2">>, <<" ", "2", "d", "2">>, <<"-", "1", "d", "2">>,
      <<"2", "d", "2", "a", "b", "c">>, <<"2", "d", "2", "+">>,
      <<"1", "d", "3", "+", "1", "x">>, <<"2", "d", "2", " ">>,
      <<"1", "d", "2", "d", "3">>, <<"0", "d", "2", "z">>, <<"1", "d", "1", "!">> }

DiceNotations == GrammarNotations \cup MalformedNotations

NoRequest == [kind |-> "none"]
NoResponse == [kind |-> "none"]
NoResult == [kind |-> "none"]

\* What a call of lambda_handler touched: whether it looked tool_name up in the
\* registry, the implementations it called and what the call in its try block
\* returned or raised, the collaborator step that failed, and how often it called
\* mcp_server.handle_request and what that returned.
NoTrace ==
    [lookup |-> FALSE, executed |-> <<>>, result |-> NoResult, fault |-> "none",
     generic |-> 0, returned |-> NoResponse]

----------------------------------------------------------------------------
(* The tool registry that LambdaMCPServer builds: its constructor, then the  *)
(* four @mcp_server.tool() decorators of app.py, in the order of the file.   *)

Schema(properties, required) ==
    [type |-> "object", properties |-> properties, required |-> required]

Descriptor(name, description, inputSchema) ==
    [name |-> name, description |-> description, inputSchema |-> inputSchema]

\* The catalog entry listTools shows for diceRoll.
CustomDiceRollTool ==
    Descriptor("diceRoll", "Roll dice using standard D&D notation.",
               Schema("dice_notation" :> "string", <<"dice_notation">>))

\* The schemas a built-in diceRoll tool of the server may carry.
PlaceholderSchemas ==
    { Schema("dice_type" :> "string" @@ "num_dice" :> "integer", <<"dice_type">>),
      Schema(EmptyDict, <<>>) }

\* The name a decorated function is registered under: its own, or its camelCase.
ToolName(func_name, naming) ==
    IF naming = "snake" THEN func_name
    ELSE CASE func_name = "ask_rule_expert" -> "askRuleExpert"
           [] func_name = "create_character" -> "createCharacter"
           [] func_name = "get_character_by_name" -> "getCharacterByName"
           [] func_name = "dice_roll" -> "diceRoll"

\* The schema the decorator derives from a function's signature.
SignatureSchema(func_name) ==
    CASE func_name = "ask_rule_expert" -> Schema("query" :> "string", <<"query">>)
      [] func_name = "create_character" ->
            Schema("name" :> "string" @@ "race" :> "string"
                   @@ "character_class" :> "string" @@ "level" :> "integer",
                   <<"name", "race", "character_class">>)
      [] func_name = "get_character_by_name" -> Schema("name" :> "string", <<"name">>)
      [] func_name = "dice_roll" -> Schema("dice_notation" :> "string", <<"dice_notation">>)

\* d[name] = value of a dict kept as a sequence of entries: a known name keeps its
\* place, a new one goes last.
DictSet(entries, entry) ==
    IF \E i \in 1..Len(entries) : entries[i].name = entry.name
    THEN [i \in 1..Len(entries) |->
              IF entries[i].name = entry.name THEN entry ELSE entries[i]]
    ELSE Append(entries, entry)

\* What the constructor may register: nothing, or a diceRoll of its own.
Builtins ==
    {[kind |-> "none"]} \cup {[kind |-> "diceRoll", schema |-> s] : s \in PlaceholderSchemas}

Registry(ts, impls) == [tools |-> ts, tool_implementations |-> impls]

\* LambdaMCPServer(...): a server with no tool, or with a built-in diceRoll.
NewServer(builtin) ==
    IF builtin.kind = "none" THEN Registry(<<>>, EmptyDict)
    ELSE Registry(<<Descriptor("diceRoll", "built-in", builtin.schema)>>,
                  "diceRoll" :> "builtin_dice_roll")

\* @mcp_server.tool() on func_name.
RegisterTool(reg, func_name, naming) ==
    LET name == ToolName(func_name, naming) IN
    Registry(DictSet(reg.tools, Descriptor(name, func_name, SignatureSchema(func_name))),
             (name :> func_name) @@ reg.tool_implementations)

DecoratedFunctions ==
    <<"ask_rule_expert", "create_character", "get_character_by_name", "dice_roll">>

RECURSIVE RegisterAll(_, _, _)
RegisterAll(reg, funcs, naming) ==
    IF funcs = <<>> THEN reg
    ELSE RegisterAll(RegisterTool(reg, Head(funcs), naming), Tail(funcs), naming)

\* The registry once app.py is imported.
StartupRegistry(builtin, naming) == RegisterAll(NewServer(builtin), DecoratedFunctions, naming)

----------------------------------------------------------------------------
(* Calling a tool implementation with **tool_args. *)

\* A call's outcome: what it returned or raised, the character table after it and
\* the step at which a collaborator failed, if one did.
Outcome(result, chars, fault) == [result |-> result, characters |-> chars, fault |-> fault]

\* f(**tool_args) for a function with these required and optional parameters:
\* the TypeError the binding raises, or none.
BindError(required, optional, tool_args) ==
    IF tool_args.t # "obj"
    THEN Raise("TypeError", "argument after ** must be a mapping")
    ELSE IF ~(DOMAIN tool_args.o \subseteq (required \cup optional))
    THEN Raise("TypeError", "got an unexpected keyword argument")
    ELSE IF ~(required \subseteq DOMAIN tool_args.o)
    THEN Raise("TypeError", "missing required positional argument")
    ELSE [kind |-> "bound"]

\* ask_rule_expert(query): the client is built and the agent invoked inside the try.
ask_rule_expert(kwargs, env, chars) ==
    IF ~env.agent
    THEN {Outcome(Return([text |-> "[ERROR] Bedrock agent configuration missing."]), chars, "none")}
    ELSE {Outcome(Return([text |-> "[ERROR] Failed to retrieve lore", msg |-> f]), chars, f) :
              f \in {"construct", "call"}}
         \cup {Outcome(Return([text |-> "[ERROR] No lore returned from agent."]), chars, "none"),
               Outcome(Return([text |-> "lore", query |-> kwargs.query]), chars, "none")}

\* create_character(name, race, character_class, level=1): boto3.resource and
\* dynamodb.Table are called before the try, put_item inside it.
create_character(kwargs, env, chars) ==
    IF ~env.table
    THEN {Outcome(Return([text |-> "[ERROR] CHARACTER_TABLE environment variable not set."]), chars, "none")}
    ELSE {Outcome(Raise("Exception", f), chars, f) : f \in {"construct", "table"}}
         \cup {Outcome(Return([text |-> "[ERROR] Failed to create character", msg |-> "call"]),
                       chars, "call"),
               Outcome(Return([text |-> "Character created with ID", id |-> "uuid4"]),
                       chars \cup {kwargs.name}, "none")}

\* get_character_by_name(name): boto3.resource and dynamodb.Table are called before
\* the try, the scan inside it.
get_character_by_name(kwargs, env, chars) ==
    IF ~env.table
    THEN {Outcome(Return([text |-> "[ERROR] CHARACTER_TABLE environment variable not set."]), chars, "none")}
    ELSE {Outcome(Raise("Exception", f), chars, f) : f \in {"construct", "table"}}
         \cup {Outcome(Return([text |-> "[ERROR] Failed to retrieve character", msg |-> "call"]),
                       chars, "call"),
               Outcome(Return(IF kwargs.name \in chars
                              THEN [text |-> "character", name |-> kwargs.name]
                              ELSE [text |-> "[ERROR] No character found with name",
                                    name |-> kwargs.name]),
                       chars, "none")}

\* The built-in diceRoll of the server, dice_roll(dice_type, num_dice): it rolls a
\* die it knows and raises ValueError for the others.
builtin_dice_roll(kwargs, env, chars) ==
    IF kwargs.dice_type = JStr("d6")
    THEN {Outcome(Return([text |-> "built-in roll"]), chars, "none")}
    ELSE {Outcome(Raise("ValueError", "invalid dice_type"), chars, "none")}

\* mcp_server.tool_implementations[tool_name](**tool_args)
CallImplementation(impl, tool_args, env, chars) ==
    LET required == CASE impl = "ask_rule_expert" -> {"query"}
                      [] impl = "create_character" -> {"name", "race", "character_class"}
                      [] impl = "get_character_by_name" -> {"name"}
                      [] impl = "dice_roll" -> {"dice_notation"}
                      [] impl = "builtin_dice_roll" -> {"dice_type"}
        optional == CASE impl = "create_character" -> {"level"}
                      [] impl = "builtin_dice_roll" -> {"num_dice"}
                      [] OTHER -> {}
        bind == BindError(required, optional, tool_args)
    IN  IF bind.kind = "raise" THEN {Outcome(bind, chars, "none")}
        ELSE CASE impl = "ask_rule_expert" -> ask_rule_expert(tool_args.o, env, chars)
               [] impl = "create_character" -> create_character(tool_args.o, env, chars)
               [] impl = "get_character_by_name" -> get_character_by_name(tool_args.o, env, chars)
               [] impl = "dice_roll" ->
                      {Outcome(r, chars, "none") : r \in dice_roll(tool_args.o.dice_notation)}
               [] impl = "builtin_dice_roll" -> builtin_dice_roll(tool_args.o, env, chars)

----------------------------------------------------------------------------
(* lambda_handler *)

PyNone == [t |-> "None"]

\* A request body that is the JSON text of value.
JsonText(value) == [t |-> "str", json |-> value]

\* bool(x) of what event.get("body") gives: None and "" are false.
Truthy(x) == x # PyNone /\ x # JStr("")

\* json.loads(text)
json_loads(text) ==
    IF "json" \in DOMAIN text THEN Return(text.json)
    ELSE Raise("JSONDecodeError", "Expecting value")

\* d.get(key, default) of a dict
DictGet(d, key, default) == IF key \in DOMAIN d THEN d[key] ELSE default

\* The atoms that hold the substring "dice_notation".
StringsWithDiceNotation == {"dice_notation", "the dice_notation is 2d6"}

\* key in x, for the key "dice_notation": a key of a dict, an item of a list, a
\* substring of a str; the other values are not iterable.
Contains(x, key) ==
    CASE x.t = "obj" -> Return(key \in DOMAIN x.o)
      [] x.t = "list" -> Return(\E i \in 1..Len(x.l) : x.l[i] = JStr(key))
      [] x.t = "str" -> Return("s" \in DOMAIN x /\ x.s \in StringsWithDiceNotation)
      [] OTHER -> Raise("TypeError", "argument is not iterable")

\* x[key] for a str key: the value of a dict; a list or a str takes integers only.
Subscript(x, key) ==
    IF x.t = "obj" THEN Return(x.o[key])
    ELSE Raise("TypeError", "indices must be integers")

\* hash(x) works: a list or a dict is no key of a dict.
Hashable(x) == x.t \notin {"list", "obj"}

\* str(x) as an f-string renders it.
PyStr(x) ==
    CASE x.t = "str" /\ "s" \in DOMAIN x -> x.s
      [] x.t = "null" -> "None"
      [] x.t = "num" -> "number"
      [] OTHER -> "repr"

NoBody == [kind |-> "none"]

Envelope(statusCode, headers, body) ==
    [kind |-> "envelope", statusCode |-> statusCode, headers |-> headers, body |-> body]

JsonHeaders == "Content-Type" :> "application/json"

\* What one call of lambda_handler leaves behind: the envelope it returned or the
\* exception it let out, the registry and the character table after it.
Handled(resp, reg_tools, chars, tr) ==
    [response |-> resp, tools |-> reg_tools, characters |-> chars, trace |-> tr]

\* The envelopes mcp_server.handle_request may return.
GenericEnvelopes ==
    { Envelope(200, JsonHeaders, [kind |-> "json", jsonrpc |-> "result"]),
      Envelope(400, JsonHeaders, [kind |-> "json", jsonrpc |-> "error"]),
      Envelope(202, EmptyDict, NoBody) }

\* GenericPath with the return left out: handle_request is called and the handler
\* returns None.
GenericPathNoReturn(reg_tools, chars) ==
    {Handled([kind |-> "return", value |-> PyNone], reg_tools, chars,
             [NoTrace EXCEPT !.generic = 1, !.returned = e]) : e \in GenericEnvelopes}

\* return mcp_server.handle_request(event, context)
GenericPath(reg_tools, chars) ==
    {Handled(e, reg_tools, chars, [NoTrace EXCEPT !.generic = 1, !.returned = e]) : e \in GenericEnvelopes}

PingResponse == Envelope(204, "MCP-Version" :> "0.6", NoBody)

\* PingPath with the return left out: the request falls through to the end of the
\* handler.
PingPathFallsThrough(reg_tools, chars) == GenericPath(reg_tools, chars)

PingPath(reg_tools, chars) ==
    {Handled(PingResponse, reg_tools, chars, NoTrace)}

\* OverrideDiceRoll with a loop that replaces nothing.
OverrideNothing(listed) == listed

\* The loop over the copy of the catalog: every entry named diceRoll is replaced.
OverrideDiceRoll(listed) ==
    [i \in 1..Len(listed) |->
        IF listed[i].name = "diceRoll" THEN CustomDiceRollTool ELSE listed[i]]

\* ListedTools with the loop assigning to mcp_server.tools itself.
ListedToolsInPlace(reg_tools) ==
    [listed |-> OverrideDiceRoll(reg_tools), registry |-> OverrideDiceRoll(reg_tools)]

\* tools = list(mcp_server.tools.values()), then the loop: what is listed, and the
\* registry's catalog after it.  The loop assigns to the items of the copy.
ListedTools(reg_tools) ==
    [listed |-> OverrideDiceRoll(reg_tools), registry |-> reg_tools]

ListToolsPath(reg_tools, chars) ==
    LET l == ListedTools(reg_tools) IN
    {Handled(Envelope(200, JsonHeaders @@ "MCP-Version" :> "0.6",
                      [kind |-> "json", tools |-> l.listed]),
             l.registry, chars, NoTrace)}

ErrorBody(text, message) ==
    [kind |-> "json", error |-> [text |-> text, message |-> message]]

ResultBody(result) == [kind |-> "json", result |-> result]

\* The try around dice_roll(tool_args["dice_notation"]).
DiceRollPath(tool_args, reg_tools, chars) ==
    LET arg == Subscript(tool_args, "dice_notation")
        results == IF arg.kind = "raise" THEN {arg} ELSE dice_roll(arg.value)
        executed == IF arg.kind = "raise" THEN <<>> ELSE <<"dice_roll">>
    IN  {Handled(IF r.kind = "return"
                 THEN Envelope(200, JsonHeaders, ResultBody(r.value))
                 ELSE Envelope(500, JsonHeaders, ErrorBody("Error executing dice roll: ", r.msg)),
                 reg_tools, chars, [NoTrace EXCEPT !.executed = executed, !.result = r]) :
             r \in results}

NotFoundResponse(tool_name) ==
    Envelope(404, JsonHeaders, ErrorBody("Tool '<name>' not found", PyStr(tool_name)))

\* InvokePath with no except clause: what the implementation raises leaves the
\* handler.
InvokePathUncaught(impl, tool_args, reg_tools, env, chars) ==
    {Handled(IF o.result.kind = "return"
             THEN Envelope(200, JsonHeaders, ResultBody(o.result.value))
             ELSE o.result,
             reg_tools, o.characters,
             [NoTrace EXCEPT !.lookup = TRUE, !.executed = <<impl>>, !.result = o.result,
                             !.fault = o.fault]) :
         o \in CallImplementation(impl, tool_args, env, chars)}

\* The try around mcp_server.tool_implementations[tool_name](**tool_args).
InvokePath(impl, tool_args, reg_tools, env, chars) ==
    {Handled(IF o.result.kind = "return"
             THEN Envelope(200, JsonHeaders, ResultBody(o.result.value))
             ELSE Envelope(500, JsonHeaders, ErrorBody("Error executing tool: ", o.result.msg)),
             reg_tools, o.characters,
             [NoTrace EXCEPT !.lookup = TRUE, !.executed = <<impl>>, !.result = o.result,
                             !.fault = o.fault]) :
         o \in CallImplementation(impl, tool_args, env, chars)}

\* if action == "callTool":
CallToolPath(body, reg_tools, impls, env, chars) ==
    LET tool_name == DictGet(body.o, "name", JNull)
        tool_args == DictGet(body.o, "arguments", JObj(EmptyDict))
        has_notation == IF tool_name = JStr("diceRoll")
                        THEN Contains(tool_args, "dice_notation")
                        ELSE Return(FALSE)
    IN  IF has_notation.kind = "raise"
        THEN {Handled(has_notation, reg_tools, chars,
                      NoTrace)}
        ELSE IF has_notation.value
        THEN DiceRollPath(tool_args, reg_tools, chars)
        ELSE IF ~Hashable(tool_name)
        THEN {Handled(Raise("TypeError", "unhashable type"), reg_tools, chars,
                      [NoTrace EXCEPT !.lookup = TRUE])}
        ELSE IF ~(tool_name.t = "str" /\ tool_name.s \in DOMAIN impls)
        THEN {Handled(NotFoundResponse(tool_name), reg_tools, chars,
                      [NoTrace EXCEPT !.lookup = TRUE])}
        ELSE InvokePath(impls[tool_name.s], tool_args, reg_tools, env, chars)

\* The action of a parsed body, or none: isinstance(body, dict) and "action" in body.
ActionOf(body) ==
    IF body.t = "obj" /\ "action" \in DOMAIN body.o THEN Return(body.o.action)
    ELSE [kind |-> "none"]

\* What lambda_handler(event, context) can do, the registry, the environment and
\* the character table being as given.
lambda_handler(event, reg_tools, impls, env, chars) ==
    IF ~Truthy(event.body) THEN GenericPath(reg_tools, chars)
    ELSE
    LET loaded == json_loads(event.body) IN
    IF loaded.kind = "raise" THEN GenericPath(reg_tools, chars)
    ELSE
    LET action == ActionOf(loaded.value) IN
    IF action.kind = "none" THEN GenericPath(reg_tools, chars)
    ELSE IF action.value = JStr("ping") THEN PingPath(reg_tools, chars)
    ELSE IF action.value = JStr("listTools") THEN ListToolsPath(reg_tools, chars)
    ELSE IF action.value = JStr("callTool")
    THEN CallToolPath(loaded.value, reg_tools, impls, env, chars)
    ELSE GenericPath(reg_tools, chars)

----------------------------------------------------------------------------
(* The requests the gateway is sent. *)

Event(body) == [kind |-> "event", body |-> body]

\* The notations sent to the gateway's dice tool.
GatewayNotations ==
    { Notation(2, 2, NoClause), Notation(1, 3, <<"+", "3">>), Notation(1, 2, <<"-", "0">>),
      Notation(0, 2, NoClause), Notation(1, 1, NoClause),
      <<"2", "d", "2", "a", "b", "c">>, <<"d", "6">> }

ToolNames ==
    { JStr("diceRoll"), JStr("dice_roll"), JStr("askRuleExpert"), JStr("ask_rule_expert"),
      JStr("createCharacter"), JStr("create_character"),
      JStr("getCharacterByName"), JStr("get_character_by_name"),
      JStr("doesNotExist"), JNull, JNum(7), JList(<<JStr("diceRoll")>>) }

Arguments ==
    { JObj(EmptyDict), JNull, JNum(7), JStr("2d6"), JStr("the dice_notation is 2d6"),
      JList(<<JStr("dice_notation")>>), JList(<<>>),
      JObj("dice_notation" :> JNum(7)),
      JObj("dice_notation" :> JText(Notation(1, 2, NoClause)) @@ "extra" :> JNull),
      JObj("query" :> JStr("rules")),
      JObj("name" :> JStr("Ayla")),
      JObj("name" :> JStr("Ayla") @@ "race" :> JStr("elf")
           @@ "character_class" :> JStr("bard")),
      JObj("name" :> JStr("Ayla") @@ "race" :> JStr("elf")
           @@ "character_class" :> JStr("bard") @@ "level" :> JNum(7)),
      JObj("dice_type" :> JStr("d6") @@ "num_dice" :> JNum(7)),
      JObj("dice_type" :> JStr("d3")) }
    \cup {JObj("dice_notation" :> JText(chars)) : chars \in GatewayNotations}

\* What a request carries besides its action.
Fields ==
    {EmptyDict}
    \cup {"name" :> n : n \in ToolNames}
    \cup {"arguments" :> a : a \in Arguments}
    \cup {"name" :> n @@ "arguments" :> a : n \in ToolNames, a \in Arguments}

\* Some of them, for the requests whose action reads none.
FewFields ==
    { EmptyDict, "name" :> JStr("diceRoll"),
      "name" :> JStr("diceRoll") @@ "arguments" :> JObj("dice_notation" :> JText(Notation(2, 2, NoClause))),
      "name" :> JList(<<JStr("diceRoll")>>) @@ "arguments" :> JNull }

PingEvents == {Event(JsonText(JObj("action" :> JStr("ping") @@ f))) : f \in FewFields}

ListToolsEvents == {Event(JsonText(JObj("action" :> JStr("listTools") @@ f))) : f \in FewFields}

CallToolEvents == {Event(JsonText(JObj("action" :> JStr("callTool") @@ f))) : f \in Fields}

\* Bodies with no action that lambda_handler knows.
OtherEvents ==
    { Event(PyNone), Event(JStr("")), Event(JStr("{not json")),
      Event(JsonText(JNull)), Event(JsonText(JNum(7))), Event(JsonText(JStr("ping"))),
      Event(JsonText(JList(<<JStr("ping")>>))) }
    \cup {Event(JsonText(JObj(f))) : f \in FewFields}
    \cup {Event(JsonText(JObj("action" :> a @@ f))) :
              a \in {JStr("Ping"), JStr("tools/call"), JNull, JNum(7), JList(<<JStr("ping")>>)},
              f \in FewFields}

----------------------------------------------------------------------------
(* The gateway: the registry is built once, then requests are handled one at a time. *)

Init ==
    /\ \E builtin \in Builtins, naming \in {"snake", "camel"} :
          LET reg == StartupRegistry(builtin, naming) IN
          /\ tools = reg.tools
          /\ tool_implementations = reg.tool_implementations
    /\ environ \in [agent : BOOLEAN, table : BOOLEAN]
    /\ characters = {}
    /\ request = NoRequest
    /\ response = NoResponse
    /\ trace = NoTrace

\* The calls lambda_handler(event, context) can make of the current state.
Handlings(event) == lambda_handler(event, tools, tool_implementations, environ, characters)

\* A request with action "ping" is handled.
Ping ==
    \E event \in PingEvents : \E h \in Handlings(event) :
        /\ request' = event
        /\ response' = h.response
        /\ tools' = h.tools
        /\ characters' = h.characters
        /\ trace' = h.trace
        /\ UNCHANGED <<tool_implementations, environ>>

\* A request with action "listTools" is handled.
ListTools ==
    \E event \in ListToolsEvents : \E h \in Handlings(event) :
        /\ request' = event
        /\ response' = h.response
        /\ tools' = h.tools
        /\ characters' = h.characters
        /\ trace' = h.trace
        /\ UNCHANGED <<tool_implementations, environ>>

\* A request with action "callTool" is handled.
CallTool ==
    \E event \in CallToolEvents : \E h \in Handlings(event) :
        /\ request' = event
        /\ response' = h.response
        /\ tools' = h.tools
        /\ characters' = h.characters
        /\ trace' = h.trace
        /\ UNCHANGED <<tool_implementations, environ>>

\* A request with no body, or a body with none of these actions, is handled.
Other ==
    \E event \in OtherEvents : \E h \in Handlings(event) :
        /\ request' = event
        /\ response' = h.response
        /\ tools' = h.tools
        /\ characters' = h.characters
        /\ trace' = h.trace
        /\ UNCHANGED <<tool_implementations, environ>>

Next == Ping \/ ListTools \/ CallTool \/ Other

Spec == Init /\ [][Next]_vars

----------------------------------------------------------------------------
(* The dice engine on its own: one call of dice_roll per behaviour. *)

DiceInit ==
    /\ tools = <<>>
    /\ tool_implementations = <<>>
    /\ environ = [agent |-> FALSE, table |-> FALSE]
    /\ characters = {}
    /\ request \in {[kind |-> "dice_roll", dice_notation |-> JText(chars)] :
                        chars \in DiceNotations}
    /\ response = NoResponse
    /\ trace = NoTrace

RollDice ==
    /\ request.kind = "dice_roll"
    /\ response = NoResponse
    /\ \E r \in dice_roll(request.dice_notation) : response' = r
    /\ UNCHANGED <<tools, tool_implementations, environ, characters, request, trace>>

DiceNext == RollDice

SpecDice == DiceInit /\ [][DiceNext]_vars

----------------------------------------------------------------------------
(* What the properties below read off a state. *)

\* The JSON value of the last request's body, when it is JSON text.
RequestParsed ==
    request.kind = "event" /\ request.body # PyNone /\ "json" \in DOMAIN request.body

RequestIsMapping == RequestParsed /\ request.body.json.t = "obj"

RequestHasAction(a) ==
    /\ RequestIsMapping
    /\ "action" \in DOMAIN request.body.json.o
    /\ request.body.json.o.action = JStr(a)

RequestName == DictGet(request.body.json.o, "name", JNull)

RequestArguments == DictGet(request.body.json.o, "arguments", JObj(EmptyDict))

Registered(name) ==
    name.t = "str" /\ "s" \in DOMAIN name /\ name.s \in DOMAIN tool_implementations

ErrorTexts ==
    { "[ERROR] Invalid dice notation",
      "[ERROR] Number of dice must be between 1 and 100.",
      "[ERROR] Number of sides must be between 2 and 1000.",
      "[ERROR] Bedrock agent configuration missing.",
      "[ERROR] Failed to retrieve lore",
      "[ERROR] No lore returned from agent.",
      "[ERROR] CHARACTER_TABLE environment variable not set.",
      "[ERROR] Failed to create character",
      "[ERROR] Failed to retrieve character",
      "[ERROR] No character found with name" }

IsJsonEnvelope(r, status) ==
    r.kind = "envelope" /\ r.statusCode = status /\ r.body.kind = "json"

\* A string is entirely of the form <count>d<sides>[<sign><modifier>].
AllDigits(chars, from, to) ==
    from <= to /\ \A k \in from..to : chars[k] \in {DigitChars[i] : i \in 1..10}

EntirelyOfGrammar(chars) ==
    \E i \in 1..Len(chars) :
        /\ chars[i] = "d"
        /\ AllDigits(chars, 1, i - 1)
        /\ \/ AllDigits(chars, i + 1, Len(chars))
           \/ \E j \in (i + 2)..(Len(chars) - 1) :
                 /\ AllDigits(chars, i + 1, j - 1)
                 /\ chars[j] \in {"+", "-"}
                 /\ AllDigits(chars, j + 1, Len(chars))

DiceCalled == request.kind = "dice_roll" /\ response # NoResponse

----------------------------------------------------------------------------
(* Properties. *)

\* C1: every request to lambda_handler is answered with one response envelope; no
\* exception leaves the handler.
C1_EveryRequestGetsAnEnvelope ==
    request.kind = "event" => response.kind = "envelope"

\* C2: a callTool request whose name is not in the registry gets status 404 and an
\* error body naming the tool, whatever its arguments, and no implementation runs.
C2_UnregisteredNameGets404 ==
    (RequestHasAction("callTool") /\ ~Registered(RequestName)) =>
        /\ IsJsonEnvelope(response, 404)
        /\ response.body = ErrorBody("Tool '<name>' not found", PyStr(RequestName))
        /\ trace.executed = <<>>

\* C3, as claimed: a callTool request naming a registered tool whose implementation
\* raises gets status 500 and the body {"error": "Error executing tool: <message>"};
\* one whose implementation returns gets status 200 and the value under "result".
C3_RaiseGets500ErrorExecutingTool ==
    (RequestHasAction("callTool") /\ Registered(RequestName) /\ trace.executed # <<>>) =>
        /\ trace.result.kind = "raise" =>
              response = Envelope(500, JsonHeaders,
                           [kind |-> "json",
                            error |-> [text |-> "Error executing tool: ",
                                       message |-> trace.result.msg]])
        /\ trace.result.kind = "return" =>
              response = Envelope(200, JsonHeaders,
                           [kind |-> "json", result |-> trace.result.value])

\* The request is a diceRoll call whose arguments hold the key dice_notation: the one
\* lambda_handler answers by calling dice_roll itself.
RequestIsDiceNotationCall ==
    /\ RequestName = JStr("diceRoll")
    /\ RequestArguments.t = "obj"
    /\ "dice_notation" \in DOMAIN RequestArguments.o

\* C3, amended: the error text starts "Error executing dice roll: " when the request
\* is a diceRoll call with a dice_notation argument, and "Error executing tool: "
\* for every other call.
C3_RaiseGets500WithThePathsPrefix ==
    (RequestHasAction("callTool") /\ Registered(RequestName) /\ trace.executed # <<>>) =>
        /\ trace.result.kind = "raise" =>
              response = Envelope(500, JsonHeaders,
                           [kind |-> "json",
                            error |-> [text |-> IF RequestIsDiceNotationCall
                                                THEN "Error executing dice roll: "
                                                ELSE "Error executing tool: ",
                                       message |-> trace.result.msg]])
        /\ trace.result.kind = "return" =>
              response = Envelope(200, JsonHeaders,
                           [kind |-> "json", result |-> trace.result.value])

\* C3's case: diceRoll is registered, it was called with a dice_notation that is no
\* string, dice_roll raised and the request got 500.
C3_Witness ==
    /\ RequestHasAction("callTool")
    /\ Registered(RequestName)
    /\ RequestName = JStr("diceRoll")
    /\ RequestArguments = JObj("dice_notation" :> JNum(7))
    /\ trace.executed = <<"dice_roll">>
    /\ trace.result.kind = "raise"
    /\ response.statusCode = 500

\* The schema with the one property dice_notation, a string, which is required.
IsDiceNotationSchema(schema) ==
    /\ DOMAIN schema.properties = {"dice_notation"}
    /\ schema.properties["dice_notation"] = "string"
    /\ schema.required = <<"dice_notation">>

\* C4: whatever the registry built at startup holds under diceRoll, the listTools
\* response has status 200, every diceRoll entry of it has the dice_notation schema,
\* and it has a diceRoll or dice_roll entry with that schema.
C4_ListToolsShowsTheDiceNotationSchema ==
    RequestHasAction("listTools") =>
        /\ IsJsonEnvelope(response, 200)
        /\ DOMAIN response.body = {"kind", "tools"}
        /\ \A i \in 1..Len(response.body.tools) :
              response.body.tools[i].name = "diceRoll" =>
                  IsDiceNotationSchema(response.body.tools[i].inputSchema)
        /\ \E i \in 1..Len(response.body.tools) :
              /\ response.body.tools[i].name \in {"diceRoll", "dice_roll"}
              /\ IsDiceNotationSchema(response.body.tools[i].inputSchema)

\* C4's case: the registry holds another schema under diceRoll and listTools was
\* answered.
C4_Witness ==
    /\ RequestHasAction("listTools")
    /\ \E i \in 1..Len(tools) :
          /\ tools[i].name = "diceRoll"
          /\ ~IsDiceNotationSchema(tools[i].inputSchema)
    /\ response.kind = "envelope"
    /\ \E i \in 1..Len(response.body.tools) : response.body.tools[i].name = "diceRoll"

\* C5: for a notation <n>d<s> or <n>d<s><sign><m> with 1 <= n <= 100 and
\* 2 <= s <= 1000, dice_roll gives n rolls, each in 1..s, and the total
\* sum(rolls) + m; a modifier of 0 is rendered with no sign and no term.
C5_ValidNotationRollsAndTotal ==
    \A n \in DiceCounts, s \in DiceSides, c \in ModifierClauses :
        (/\ DiceCalled
         /\ request.dice_notation = JText(Notation(n, s, c.text))
         /\ 1 <= n /\ n <= 100 /\ 2 <= s /\ s <= 1000) =>
            /\ response.kind = "return"
            /\ response.value.text = "Rolled"
            /\ Len(response.value.rolls) = n
            /\ \A i \in 1..n : response.value.rolls[i] \in 1..s
            /\ response.value.total = sum(response.value.rolls) + c.modifier
            /\ c.modifier = 0 => response.value.modifier_term = <<>>
            /\ c.modifier > 0 => response.value.modifier_term = <<"+", c.modifier>>
            /\ c.modifier < 0 => response.value.modifier_term = <<"", c.modifier>>

\* C5's case: two dice of three sides with the modifier -2 were rolled, and they
\* differ.
C5_Witness ==
    /\ DiceCalled
    /\ request.dice_notation = JText(Notation(2, 3, <<"-", "2">>))
    /\ response.kind = "return"
    /\ response.value.text = "Rolled"
    /\ response.value.rolls = <<3, 1>>
    /\ response.value.total = 2

\* C6: a notation that is not entirely of the form <count>d<sides>[<sign><modifier>],
\* or whose count is outside 1..100 or whose sides are outside 2..1000, gets a parse
\* or range error from dice_roll and no rolls.
C6_MalformedOrOutOfRangeIsAnError ==
    (/\ DiceCalled
     /\ \/ ~EntirelyOfGrammar(request.dice_notation.chars)
        \/ \E n \in DiceCounts, s \in DiceSides, c \in ModifierClauses :
              /\ request.dice_notation = JText(Notation(n, s, c.text))
              /\ (n < 1 \/ n > 100 \/ s < 2 \/ s > 1000)) =>
        /\ response.kind = "return"
        /\ response.value.text \in ErrorTexts
        /\ "rolls" \notin DOMAIN response.value

\* C7: a collaborator failing at any step of ask_rule_expert, create_character or
\* get_character_by_name is answered with status 200 and an "[ERROR] ..." string as
\* the result.
C7_CollaboratorFailureIsAnErrorString ==
    (RequestHasAction("callTool") /\ trace.fault # "none") =>
        /\ IsJsonEnvelope(response, 200)
        /\ DOMAIN response.body = {"kind", "result"}
        /\ response.body.result.text \in ErrorTexts

\* C8: a request with action "ping" gets status 204, the MCP-Version header and no
\* body, whatever else it carries and whatever was handled before; no tool is looked
\* up or run and mcp_server.handle_request is not called.
C8_PingIs204WithoutBody ==
    RequestHasAction("ping") =>
        /\ response.kind = "envelope"
        /\ response.statusCode = 204
        /\ "MCP-Version" \in DOMAIN response.headers
        /\ response.body = [kind |-> "none"]
        /\ trace.lookup = FALSE
        /\ trace.executed = <<>>
        /\ trace.generic = 0

\* C8's case: a ping that names a tool and carries arguments was answered, with
\* characters already created by earlier requests.
C8_Witness ==
    /\ RequestHasAction("ping")
    /\ RequestName = JStr("diceRoll")
    /\ "arguments" \in DOMAIN request.body.json.o
    /\ characters # {}
    /\ response.kind = "envelope"

\* The body is absent or empty, not JSON, no mapping, has no action, or has an
\* action other than ping, listTools and callTool.
RequestIsGeneric ==
    \/ request.body = PyNone
    \/ request.body = JStr("")
    \/ "json" \notin DOMAIN request.body
    \/ request.body.json.t # "obj"
    \/ "action" \notin DOMAIN request.body.json.o
    \/ request.body.json.o.action \notin {JStr("ping"), JStr("listTools"), JStr("callTool")}

\* C9: mcp_server.handle_request is called, once, and its envelope returned as it
\* is, exactly for the requests with no action that lambda_handler knows; a ping
\* ends with the 204 envelope, a listTools with the catalog, and neither they nor a
\* callTool reach mcp_server.handle_request.
C9_GenericExactlyForUnknownActions ==
    request.kind = "event" =>
        /\ trace.generic = (IF RequestIsGeneric THEN 1 ELSE 0)
        /\ RequestIsGeneric => (response = trace.returned /\ response \in GenericEnvelopes)
        /\ ~RequestIsGeneric => trace.returned = NoResponse
        /\ RequestHasAction("ping") => (response.kind = "envelope" /\ response.statusCode = 204)
        /\ RequestHasAction("listTools") =>
              (response.kind = "envelope" /\ "tools" \in DOMAIN response.body)
        /\ RequestHasAction("callTool") => response \notin GenericEnvelopes

\* C9's case: a mapping whose action is none of the three, naming a tool, went to
\* mcp_server.handle_request.
C9_Witness ==
    /\ RequestIsMapping
    /\ "action" \in DOMAIN request.body.json.o
    /\ request.body.json.o.action = JStr("tools/call")
    /\ RequestName = JStr("diceRoll")
    /\ trace.generic = 1
    /\ response.statusCode = 400

\* The last request was a callTool that got 404 or 500, or raised.
CallToolFailed ==
    /\ RequestHasAction("callTool")
    /\ \/ response.kind = "raise"
       \/ response.kind = "envelope" /\ response.statusCode \in {404, 500}

\* C10: no request changes mcp_server.tools or mcp_server.tool_implementations, a
\* failed callTool changes nothing that a later request reads, and listTools asked
\* again is answered the same.
C10_RegistryUnchanged ==
    [][/\ tools' = tools
       /\ tool_implementations' = tool_implementations
       /\ CallToolFailed' => (characters' = characters /\ environ' = environ)
       /\ (RequestHasAction("listTools") /\ RequestHasAction("listTools")') =>
              response'.body = response.body]_vars

\* C10's case: listTools was answered with the override while the registry still
\* holds its own diceRoll entry, after a character was created.
C10_Witness ==
    /\ RequestHasAction("listTools")
    /\ characters # {}
    /\ response.kind = "envelope"
    /\ \E i \in 1..Len(tools) :
          /\ tools[i].name = "diceRoll"
          /\ response.body.tools[i].name = "diceRoll"
          /\ response.body.tools[i] # tools[i]

=============================================================================
